---- MODULE Spec2Model ----
(***************************************************************************)
(* Model of the synchronisation state machine of outlook2gcal              *)
(* (src/src/outlook2gcal.py): the in-memory ledger SyncMonitor.synced_events,*)
(* the persisted ledger file, the remote Google calendar as seen through   *)
(* GoogleSync, and the sync cycle main.sync_events.                        *)
(*                                                                         *)
(* Strings are sequences of tokens.  A token is a run of characters that   *)
(* the code never splits; PREFIX is the mail icon followed by a blank, the  *)
(* two characters create_event puts in front of a title and                *)
(* check_event_exists removes.  The clock counts hours; a synced_date is   *)
(* an hour of the clock, an event start or end a [day, hour, usec] record  *)
(* (usec is 0 for a time read from the calendar and tells the readings of  *)
(* datetime.now() within an hour apart).                                   *)
(* Dicts are sequences of [key, info] pairs in insertion order.            *)
(***************************************************************************)
EXTENDS Integers, Sequences, FiniteSets, TLC

VARIABLES
    synced_events,  \* SyncMonitor.synced_events: the ledger in memory
    state_file,     \* contents of config/sync_state.json
    remote,         \* events of the target Google calendar
    calendar_id,    \* GoogleSync.calendar_id: the calendar that is the target
    other_calendar, \* events of the calendar that is not the target
    now,            \* the wall clock, in hours
    outlook,        \* the lines the AppleScript printed in the last extraction
    events,         \* what outlook.get_events returned in the last cycle
    extracted,      \* whether the last extraction succeeded
    calls,          \* remote calls, save_state calls and migrations of the last cycle, in order
    lastOp,         \* the last operation that ran
    cycles          \* how many sync cycles have run

vars == <<synced_events, state_file, remote, calendar_id, other_calendar, now, outlook, events,
          extracted, calls, lastOp, cycles>>

\* the target calendar and the events of the other one
calvars == <<calendar_id, other_calendar>>

-----------------------------------------------------------------------------
(* Bounds of the exploration *)

MaxSnap == 2        \* longest snapshot
MaxCycles == 3      \* most sync cycles in one behaviour
MaxFaults == 1      \* most remote calls that fail in one cycle
MaxRemote == 3      \* most events the remote calendar holds
MaxNow == 62        \* last day the clock reaches
TickDays == 31      \* longest pause between two operations, in days

-----------------------------------------------------------------------------
(* Program constants and absent values *)

RetentionDays == 60             \* timedelta(days=60)
DayHours == 24                  \* the hours of a day
PREFIX == <<"MAILICON", " ">>   \* the two characters create_event prepends
NoId == 0                       \* None as a google_event_id
NoDate == -1000                 \* a synced_date that is missing or unparseable
NoKey == <<>>                   \* None as returned by find_matching_old_event
NoText == <<>>                  \* '' and a missing title / event_date

-----------------------------------------------------------------------------
(* Events of the desktop calendar *)

\* datetime.isoformat of an event start: the microseconds are printed when
\* they are not 0
\* the days and hours a start can have, and the text of each of them
\* (computed once)
Days == 0..MaxNow
Hours == 0..(DayHours - 1)
DateText == [d \in Days, h \in Hours |-> "D" \o ToString(d) \o "T" \o ToString(h)]

isoformat(start) ==
    << IF start.usec = 0
       THEN DateText[start.day, start.hour]
       ELSE DateText[start.day, start.hour] \o "." \o ToString(start.usec) >>

\* a start on the hour
At(d, h) == [day |-> d, hour |-> h, usec |-> 0]

\* a reading of datetime.now(): the hour t of the clock, and the rank n > 0
\* of the reading among those of that hour (two readings are never equal)
Reading(t, n) == [time |-> t, usec |-> n]

\* hashlib.md5(...).hexdigest()[:16], taken to be collision free: the digest
\* is the string it was computed from behind a tag
md5_16(s) == <<"md5">> \o s

hash_input(e) == e.title \o <<"-">> \o isoformat(e.start) \o <<"-">> \o e.organizer

unique_id(e) == <<"outlook-">> \o md5_16(hash_input(e))

\* the time an hour after s
HourAfter(s) ==
    IF s.hour = DayHours - 1
    THEN [s EXCEPT !.day = s.day + 1, !.hour = 0]
    ELSE [s EXCEPT !.hour = s.hour + 1]

\* the dict of get_events for a meeting of an hour
Ev(t, d, h, o) ==
    [title |-> t, start |-> At(d, h), end |-> HourAfter(At(d, h)), organizer |-> o]

\* str.strip on a token sequence: blanks are the token " ", which is also
\* the second token of PREFIX
RECURSIVE lstrip(_)
lstrip(s) == IF s # <<>> /\ Head(s) = " " THEN lstrip(Tail(s)) ELSE s

RECURSIVE rstrip(_)
rstrip(s) ==
    IF s # <<>> /\ s[Len(s)] = " " THEN rstrip(SubSeq(s, 1, Len(s) - 1)) ELSE s

strip(s) == rstrip(lstrip(s))

\* a date as AppleScript prints it: in the Korean form
\* 'YYYY년 M월 D일 오전|오후 h:mm:ss' (fmt "ko"; ampm is "AM" for 오전 and
\* "PM" for 오후, hour is 1..12), or in any other form (fmt "other")
DateStr(fmt, d, ampm, h) == [fmt |-> fmt, day |-> d, ampm |-> ampm, hour |-> h]

\* the date string of the time an hour after the one of date_str (a string
\* of another form stays of another form)
HourLater(date_str) ==
    IF date_str.fmt # "ko" THEN date_str
    ELSE IF date_str.hour = 12 THEN [date_str EXCEPT !.hour = 1]
    ELSE IF date_str.hour < 11 THEN [date_str EXCEPT !.hour = date_str.hour + 1]
    ELSE IF date_str.ampm = "AM" THEN [date_str EXCEPT !.ampm = "PM", !.hour = 12]
    ELSE [date_str EXCEPT !.day = date_str.day + 1, !.ampm = "AM", !.hour = 12]

\* a line of the script output: parts[0], parts[1], parts[2] and parts[5]
LineTo(t, date_str, end_str, o) ==
    [title |-> t, raw_start |-> date_str, raw_end |-> end_str, organizer |-> o]

\* the line of a meeting of an hour
Line(t, date_str, o) == LineTo(t, date_str, HourLater(date_str), o)

\* parse_date when datetime.now() reads t: the date of the Korean pattern in
\* 24-hour form, and the reading of the clock, with its time of the day and
\* its microseconds, for a string the pattern does not match
parse_date(date_str, t) ==
    IF date_str.fmt = "ko"
    THEN At(date_str.day,
            IF date_str.ampm = "PM" /\ date_str.hour # 12 THEN date_str.hour + 12
            ELSE IF date_str.ampm = "AM" /\ date_str.hour = 12 THEN 0
            ELSE date_str.hour)
    ELSE [day |-> t.time \div DayHours, hour |-> t.time % DayHours, usec |-> t.usec]

\* the dict get_events builds from one line: start_date is parsed at the
\* reading t of the clock and end_date at the next one
parse_line(line, t) ==
    [title |-> line.title,
     start |-> parse_date(line.raw_start, t),
     end |-> parse_date(line.raw_end, Reading(t.time, t.usec + 1)),
     organizer |-> line.organizer]

\* the events the desktop calendar can hold: one meeting, and the same
\* meeting with another organizer (another stableId, same title and start)

EventPool ==
    { Line(<<"a">>, DateStr("ko", 1, "AM", 9), <<"alice">>),
      Line(<<"a">>, DateStr("ko", 1, "AM", 9), <<"bob">>) }

Snapshots == UNION { [1..n -> EventPool] : n \in 0..MaxSnap }

\* get_events when the clock reads t at the call: the parsed lines, or []
\* when Outlook is not running, the script fails or prints nothing.
\* run_applescript strips the output, so the title of the first line loses
\* its leading blanks; every line is parsed at a later reading of the clock
get_events(lines, ok, t) ==
    IF ok
    THEN [i \in DOMAIN lines |->
            parse_line(IF i = 1 THEN [lines[i] EXCEPT !.title = lstrip(@)] ELSE lines[i],
                       Reading(t.time, t.usec + 2 * i - 1))]
    ELSE <<>>

\* the clock at the call of get_events of cycle n: later than every reading
\* of the cycles before it
ClockAt(n) == Reading(now, n * (2 * MaxSnap + 1))

-----------------------------------------------------------------------------
(* Dict operations on a sequence of [key, info] pairs *)

Keys(d) == { d[i].key : i \in DOMAIN d }

Has(d, k) == k \in Keys(d)

Get(d, k) == d[CHOOSE i \in DOMAIN d : d[i].key = k].info

Put(d, k, info) ==
    IF Has(d, k)
    THEN [i \in DOMAIN d |-> IF d[i].key = k THEN [key |-> k, info |-> info] ELSE d[i]]
    ELSE Append(d, [key |-> k, info |-> info])

Del(d, k) == SelectSeq(d, LAMBDA p : p.key # k)

Info(sd, ed, t, g) ==
    [synced_date |-> sd, event_date |-> ed, title |-> t, google_event_id |-> g]

-----------------------------------------------------------------------------
(* String helpers *)

\* str.replace(PREFIX, ''): every occurrence goes, from the left
RECURSIVE replace_prefix(_)
replace_prefix(s) ==
    IF s = <<>> THEN <<>>
    ELSE IF Len(s) >= 2 /\ SubSeq(s, 1, 2) = PREFIX
         THEN replace_prefix(SubSeq(s, 3, Len(s)))
         ELSE <<Head(s)>> \o replace_prefix(Tail(s))

Digits == {"0", "1", "2", "3", "4", "5", "6", "7", "8", "9"}

RECURSIVE lstrip_dash(_)
lstrip_dash(s) == IF s # <<>> /\ Head(s) = "-" THEN lstrip_dash(Tail(s)) ELSE s

isdigit(s) == s # <<>> /\ \A i \in DOMAIN s : s[i] \in Digits

\* old_id.startswith('outlook--') and old_id[9:].lstrip('-').isdigit()
is_old_style(k) ==
    /\ Len(k) >= 2
    /\ k[1] = "outlook-"
    /\ k[2] = "-"
    /\ isdigit(lstrip_dash(SubSeq(k, 3, Len(k))))

Min(S) == CHOOSE x \in S : \A y \in S : x <= y

Max(S) == CHOOSE x \in S : \A y \in S : x >= y

\* the first k elements of a sequence: s[:k]
Take(s, k) == [i \in 1..Min({k, Len(s)}) |-> s[i]]

\* the sets of at most k failing calls among S
Faults(S, k) == { f \in SUBSET S : Cardinality(f) <= k }

\* the orders in which a set can be iterated
Orderings(S) ==
    { s \in [1..Cardinality(S) -> S] : \A i, j \in DOMAIN s : s[i] = s[j] => i = j }

-----------------------------------------------------------------------------
(* GoogleSync: the remote calendar *)

RemoteEvent(id, summary, start, end) ==
    [id |-> id, summary |-> summary, start |-> start, end |-> end]

RemoteIds(rem) == { r.id : r \in rem }

LedgerIds(d) == { d[i].info.google_event_id : i \in DOMAIN d }

\* event['id'] of an inserted event: an id that nothing refers to yet
NewRemoteId(rem, led, file) ==
    Min({ n \in 1..(Cardinality(rem) + Len(led) + Len(file.dict) + 1) :
            n \notin RemoteIds(rem) \cup LedgerIds(led) \cup LedgerIds(file.dict) })

\* create_event, when events().insert succeeds
create_event(rem, e, id) ==
    rem \cup { RemoteEvent(id, PREFIX \o e.title, e.start, e.end) }

\* the body create_event inserts: of its fields the lookups read summary,
\* start and end; description carries the organizer
google_event(e) ==
    [summary |-> PREFIX \o e.title, start |-> e.start, end |-> e.end,
     description |-> e.organizer]

\* the event of the calendar with the given id
EventOf(rem, id) == CHOOSE r \in rem : r.id = id

\* a start is not later than another one
NotAfter(s1, s2) ==
    \/ s1.day < s2.day
    \/ s1.day = s2.day /\ s1.hour < s2.hour
    \/ s1.day = s2.day /\ s1.hour = s2.hour /\ s1.usec <= s2.usec

\* the answers events().list(orderBy='startTime') can give for the calendar:
\* the ids of its events by start time, the events of equal start in any
\* order (the order is the service's)
Listings(rem) ==
    { s \in Orderings(RemoteIds(rem)) :
        \A i, j \in DOMAIN s :
            i < j => NotAfter(EventOf(rem, s[i]).start, EventOf(rem, s[j]).start) }

\* one listing for each way check_event_exists can be answered: the listings
\* that differ only in the order of the events behind the first one of equal
\* start and summary give every lookup the same answer, and of these the one
\* that has those events in the order of their ids is kept (the set is
\* written as an image so that it is computed once where it is bound)
Listed(rem) ==
    { l : l \in
        { s \in Listings(rem) :
            \A i, j \in DOMAIN s :
                ( /\ i < j
                  /\ EventOf(rem, s[i]).start = EventOf(rem, s[j]).start
                  /\ EventOf(rem, s[i]).summary = EventOf(rem, s[j]).summary
                  /\ \E h \in 1..(i - 1) :
                        /\ EventOf(rem, s[h]).start = EventOf(rem, s[i]).start
                        /\ EventOf(rem, s[h]).summary = EventOf(rem, s[i]).summary )
                => s[i] < s[j] } }

\* a time is earlier than another one
Before(s1, s2) == ~NotAfter(s2, s1)

\* events().list(timeMin, timeMax) for the day of e: the events that end
\* after 00:00:00 of the day (timeMin bounds the end) and start before
\* 23:59:59 of the day (timeMax bounds the start), so an event that began
\* the day before and ends in the day is listed too.  The clock of the model
\* tells no seconds apart: a start in the last hour of the day counts as
\* before 23:59:59
same_day(rem, e) ==
    { r \in rem : /\ Before(At(e.start.day, 0), r.end)
                  /\ r.start.day <= e.start.day }

\* check_event_exists, when events().list succeeds: the first event, in the
\* order of the listing, of the day whose cleaned title is the target title
check_event_exists(rem, e, listing) ==
    LET match == { i \in DOMAIN listing :
                     /\ EventOf(rem, listing[i]) \in same_day(rem, e)
                     /\ replace_prefix(EventOf(rem, listing[i]).summary) = e.title }
    IN  IF match = {} THEN NoId ELSE listing[Min(match)]

\* a check_event_exists that answers an HttpError with the id of the first
\* event of the calendar
check_event_exists_or_first(rem, e, listing, fail) ==
    IF fail THEN Min(RemoteIds(rem) \cup {1}) ELSE check_event_exists(rem, e, listing)

\* check_event_exists with its except clause: None when events().list raises
\* HttpError
check_event_exists_or_none(rem, e, listing, fail) ==
    IF fail THEN NoId ELSE check_event_exists(rem, e, listing)

\* an events().delete that answers without deleting anything
delete_event_keep(rem, id) == rem

\* the calendar after events().delete
delete_event(rem, id) == { r \in rem : r.id # id }

\* the answer of events().delete: the event is deleted, or it is not there
\* and the service answers 404, or the call raises another HttpError (a
\* server error, a refusal, 410 for an event deleted before)
delete_status(rem, id, fail) ==
    IF fail THEN "error"
    ELSE IF id \in RemoteIds(rem) THEN "deleted" ELSE "404"

\* a delete_event that returns False on 404
delete_ok_strict(status) == status = "deleted"

\* what delete_event returns (it returns nothing when the call raises an
\* exception that is not an HttpError: status "raised")
delete_ok(status) == status \in {"deleted", "404"}

-----------------------------------------------------------------------------
(* SyncMonitor: the ledger *)

File(kind, list, dict) == [kind |-> kind, list |-> list, dict |-> dict]

\* kinds of file contents: "missing" (no file), "corrupt" (not JSON: empty,
\* cut short or garbage), "shape" (JSON of another shape than a ledger: the
\* top level, the value of 'synced_events' or the value of an entry is not an
\* object; dict holds the entries that are), "list" (the old format) and
\* "dict" (the current format); "denied" is a file the process cannot reach
\* (the directory config/ cannot be searched)
MissingFile == File("missing", <<>>, <<>>)
CorruptFile == File("corrupt", <<>>, <<>>)
DeniedFile == File("denied", <<>>, <<>>)

\* 'if self.state_file.exists():' raises: Path.exists returns False when
\* there is no such file and lets every other error of stat() through
\* (PermissionError for a directory that cannot be searched).  The call is
\* outside the try of load_state, so SyncMonitor() raises and main ends
load_raises(file) == file.kind = "denied"

\* a synced_date with a UTC offset ('...+09:00'), of hour d: fromisoformat
\* parses it into an aware datetime
AwareBase == 100000
Aware(d) == AwareBase + d
IsAware(sd) == sd >= AwareBase

\* cleanup_old_events: an entry goes when fromisoformat raises (NoDate), when
\* the comparison with the naive cutoff raises TypeError (an aware date), and
\* when its date is before the cutoff
cleanup_old_events(d, t) ==
    SelectSeq(d, LAMBDA p :
        /\ p.info.synced_date # NoDate
        /\ ~IsAware(p.info.synced_date)
        /\ ~(p.info.synced_date < t - RetentionDays * DayHours))

\* the conversion of an old-format list that gives the entries no date
RECURSIVE from_list_undated(_, _)
from_list_undated(ids, t) ==
    IF ids = <<>> THEN <<>>
    ELSE Put(from_list_undated(SubSeq(ids, 1, Len(ids) - 1), t), ids[Len(ids)],
             Info(NoDate, NoText, NoText, NoId))

\* the dict comprehension of load_state over an old-format list
RECURSIVE from_list(_, _)
from_list(ids, t) ==
    IF ids = <<>> THEN <<>>
    ELSE Put(from_list(SubSeq(ids, 1, Len(ids) - 1), t), ids[Len(ids)],
             Info(t, NoText, NoText, NoId))

\* migrate_old_ids only counts the old-style keys: synced_events is not touched
migrate_old_ids(d) == d

\* load_state in a new process (synced_events starts as {}), when
\* state_file.exists() answers: nothing is read when the file does not exist,
\* and every exception of open, of json.load, of the conversion, of
\* migrate_old_ids and of cleanup_old_events ends in synced_events = {}
load_state(file, t) ==
    CASE file.kind = "missing" -> <<>>
      [] file.kind = "corrupt" -> <<>>
      [] file.kind = "shape" -> <<>>
      [] file.kind = "list" -> cleanup_old_events(migrate_old_ids(from_list(file.list, t)), t)
      [] file.kind = "dict" -> cleanup_old_events(migrate_old_ids(file.dict), t)

SaveOutcomes == {"ok", "open_fail", "torn"}

\* save_state: the file is rewritten in place; when open fails the file is
\* as before, when the write stops part way the file is cut short
save_state(file, d, outcome) ==
    CASE load_raises(file) -> file
      [] outcome = "ok" -> File("dict", <<>>, d)
      [] outcome = "open_fail" -> file
      [] outcome = "torn" -> CorruptFile

get_synced_event_ids(d) == Keys(d)

\* remove_synced_event that forgets to delete the entry
remove_synced_event_keep(d, k) == d

remove_synced_event(d, k) == IF Has(d, k) THEN Del(d, k) ELSE d

\* find_matching_old_event: the first old-style key, in dict order, whose
\* stored title and event_date are those of the new event
find_matching_old_event(d, e) ==
    LET hits == { i \in DOMAIN d :
                    /\ is_old_style(d[i].key)
                    /\ strip(d[i].info.title) = strip(e.title)
                    /\ d[i].info.event_date = isoformat(e.start) }
    IN  IF hits = {} THEN NoKey ELSE d[Min(hits)].key

\* update_event_id
update_event_id(d, old_id, new_id, e, t) ==
    IF Has(d, old_id)
    THEN LET old_data == [Get(d, old_id) EXCEPT !.synced_date = t,
                                                !.event_date = isoformat(e.start),
                                                !.title = e.title]
         IN  Del(Put(d, new_id, old_data), old_id)
    ELSE d

\* an is_synced that knows no event
is_synced_never(d, e) == FALSE

is_synced(d, e) == Has(d, unique_id(e))

\* a mark_synced that writes nothing
mark_synced_lost(d, e, google_event_id, t) == d

\* a mark_synced that does not store the remote id
mark_synced_unbound(d, e, google_event_id, t) ==
    Put(d, unique_id(e), Info(t, isoformat(e.start), e.title, NoId))

mark_synced(d, e, google_event_id, t) ==
    Put(d, unique_id(e), Info(t, isoformat(e.start), e.title, google_event_id))

-----------------------------------------------------------------------------
(* main.sync_events: one sync cycle *)

Call(op, key, id, ok) == [op |-> op, key |-> key, id |-> id, ok |-> ok]

DeleteCall(key, id, status) ==
    [op |-> "delete", key |-> key, id |-> id, ok |-> delete_ok(status), status |-> status]

\* a monitor.save_state() call and how it ended
SaveCall(outcome) == [op |-> "save", key |-> NoKey, id |-> NoId, ok |-> outcome = "ok"]

\* a monitor.update_event_id(old_id, new_id, event) call
MigrateCall(old_id, new_id) ==
    [op |-> "migrate", key |-> new_id, id |-> NoId, ok |-> TRUE, old |-> old_id]

\* the answers events().list can give to the lookups of a cycle over the
\* snapshot evs, one for each event, out of the listings all.  led is the
\* ledger at the start of the cycle and findFail the positions whose list
\* call raises.  An event that is in the ledger is not looked up and a call
\* that raises answers nothing: their places hold the first listing
LookupListings(all, evs, led, findFail) ==
    LET first == CHOOSE l \in all : TRUE IN
    { f \in [DOMAIN evs -> all] :
        \A i \in DOMAIN evs :
            (Has(led, unique_id(evs[i])) \/ i \in findFail) => f[i] = first }

\* of the listings of a cycle, those that no lookup asked for are the first
\* listing: finds are the positions looked up
UnusedAreFirst(all, listings, finds) ==
    LET first == CHOOSE l \in all : TRUE IN
    \A i \in DOMAIN listings : i \notin finds => listings[i] = first

\* the loop over events that fills new_events (classification).  findFail is
\* the set of snapshot positions whose events().list raises HttpError;
\* finds collects the positions for which check_event_exists was called;
\* listings[i] is the answer events().list gives to the lookup of evs[i],
\* every lookup making its own list call
RECURSIVE classify(_, _, _, _, _, _, _)
classify(evs, i, acc, rem, findFail, listings, t) ==
    IF i > Len(evs) THEN acc
    ELSE
      LET e == evs[i] IN
      IF is_synced(acc.led, e)
      THEN classify(evs, i + 1, acc, rem, findFail, listings, t)
      ELSE
        LET old_event_match == find_matching_old_event(acc.led, e) IN
        IF old_event_match # NoKey
        THEN classify(evs, i + 1,
                 [acc EXCEPT !.led = update_event_id(acc.led, old_event_match, unique_id(e), e, t),
                             !.log = Append(acc.log, MigrateCall(old_event_match, unique_id(e)))],
                 rem, findFail, listings, t)
        ELSE
          LET existing == check_event_exists_or_none(rem, e, listings[i], i \in findFail)
              logged == [acc EXCEPT
                           !.log = Append(acc.log, Call("find", unique_id(e), existing, i \notin findFail)),
                           !.finds = acc.finds \cup {i}]
          IN
          IF existing # NoId
          THEN classify(evs, i + 1,
                   [logged EXCEPT !.led = mark_synced(logged.led, e, existing, t)],
                   rem, findFail, listings, t)
          ELSE classify(evs, i + 1,
                   [logged EXCEPT !.new_events = Append(logged.new_events, e)],
                   rem, findFail, listings, t)

\* the loop over new_events run before the classification: its calls come
\* first in the log
RECURSIVE create_all_early(_, _, _, _, _, _)
create_all_early(new_events, i, acc, file, createFail, t) ==
    IF i > Len(new_events) THEN acc
    ELSE
      LET e == new_events[i] IN
      IF i \in createFail
      THEN create_all_early(new_events, i + 1,
               [acc EXCEPT !.log = <<Call("create", unique_id(e), NoId, FALSE)>> \o acc.log],
               file, createFail, t)
      ELSE
        LET google_event_id == NewRemoteId(acc.rem \cup acc.other, acc.led, file) IN
        create_all_early(new_events, i + 1,
            [acc EXCEPT !.rem = create_event(acc.rem, e, google_event_id),
                        !.led = mark_synced(acc.led, e, google_event_id, t),
                        !.log = <<Call("create", unique_id(e), google_event_id, TRUE)>> \o acc.log],
            file, createFail, t)

\* the loop over new_events.  createFail is the set of positions in
\* new_events whose events().insert raises HttpError
RECURSIVE create_all(_, _, _, _, _, _)
create_all(new_events, i, acc, file, createFail, t) ==
    IF i > Len(new_events) THEN acc
    ELSE
      LET e == new_events[i] IN
      IF i \in createFail
      THEN create_all(new_events, i + 1,
               [acc EXCEPT !.log = Append(acc.log, Call("create", unique_id(e), NoId, FALSE))],
               file, createFail, t)
      ELSE
        LET google_event_id == NewRemoteId(acc.rem \cup acc.other, acc.led, file) IN
        create_all(new_events, i + 1,
            [acc EXCEPT !.rem = create_event(acc.rem, e, google_event_id),
                        !.led = mark_synced(acc.led, e, google_event_id, t),
                        !.log = Append(acc.log, Call("create", unique_id(e), google_event_id, TRUE))],
            file, createFail, t)

\* the loop over deleted_event_ids, iterated in the given order.  deleteFail
\* is the set of ledger keys whose events().delete raises an HttpError other
\* than 404
RECURSIVE delete_all(_, _, _, _)
delete_all(order, i, acc, deleteFail) ==
    IF i > Len(order) THEN acc
    ELSE
      LET event_id == order[i]
          google_event_id == Get(acc.led, event_id).google_event_id
          status == delete_status(acc.rem, google_event_id, event_id \in deleteFail)
      IN
      IF google_event_id # NoId
      THEN
        IF delete_ok(status)
        THEN delete_all(order, i + 1,
                 [acc EXCEPT !.rem = IF status = "deleted"
                                     THEN delete_event(acc.rem, google_event_id)
                                     ELSE acc.rem,
                             !.led = remove_synced_event(acc.led, event_id),
                             !.log = Append(acc.log, DeleteCall(event_id, google_event_id, status))],
                 deleteFail)
        ELSE delete_all(order, i + 1,
                 [acc EXCEPT !.log = Append(acc.log, DeleteCall(event_id, google_event_id, status))],
                 deleteFail)
      ELSE delete_all(order, i + 1,
               [acc EXCEPT !.led = remove_synced_event(acc.led, event_id)],
               deleteFail)

current_event_ids(evs) == { unique_id(evs[i]) : i \in DOMAIN evs }

\* deleted_event_ids that leaves out the entries without a remote id
deleted_event_ids_bound(d, evs) ==
    { k \in get_synced_event_ids(d) \ current_event_ids(evs) : Get(d, k).google_event_id # NoId }

\* deleted_event_ids that leaves out the keys of the obsolete scheme
deleted_event_ids_new(d, evs) ==
    { k \in get_synced_event_ids(d) \ current_event_ids(evs) : ~is_old_style(k) }

\* deleted_event_ids without the set difference
deleted_event_ids_all(d, evs) == get_synced_event_ids(d)

deleted_event_ids(d, evs) == get_synced_event_ids(d) \ current_event_ids(evs)

\* 'if new_events:' the branch that ends in monitor.save_state()
save_after_create(new_events) == new_events # <<>>

\* 'if deleted_event_ids:' the branch that ends in monitor.save_state()
save_after_delete(deleted) == deleted # {}

\* the body of sync_events.  lines is what the desktop calendar holds and ok
\* whether the extraction works; all are the orders in which the service can
\* list the calendar, which the classification does not change, and
\* listings the ones it answers at the lookups of this cycle; findFail,
\* createFail and deleteFail are the remote calls that raise HttpError,
\* order the iteration order of the set deleted_event_ids, save1 and save2
\* the outcomes of the two save_state calls
sync_cycle(snapshots, extraction, remoteFaults, saves) ==
    \E all \in { Listed(remote) } :
    \E lines \in snapshots, ok \in extraction :
      /\ IF ok THEN TRUE ELSE lines = <<>>
      /\ \E evs \in { get_events(lines, ok, ClockAt(cycles)) } :
         \E findFail \in Faults(1..Len(evs), IF remoteFaults THEN MaxFaults ELSE 0) :
         \E listings \in LookupListings(all, evs, synced_events, findFail) :
         \E c \in { classify(evs, 1,
                        [led |-> synced_events, new_events |-> <<>>, log |-> <<>>, finds |-> {}],
                        remote, findFail, listings, now) } :
           /\ findFail \subseteq c.finds
           /\ UnusedAreFirst(all, listings, c.finds)
           /\ \E createFail \in Faults(1..Len(c.new_events),
                                       IF remoteFaults THEN MaxFaults - Cardinality(findFail) ELSE 0) :
              \E a \in { create_all(c.new_events, 1,
                             [led |-> c.led, rem |-> remote, other |-> other_calendar, log |-> c.log],
                             state_file, createFail, now) } :
              \E save1 \in IF save_after_create(c.new_events) THEN saves ELSE {"ok"} :
              \E file1 \in { IF save_after_create(c.new_events)
                              THEN save_state(state_file, a.led, save1)
                              ELSE state_file } :
              \E log1 \in { IF save_after_create(c.new_events)
                             THEN Append(a.log, SaveCall(save1))
                             ELSE a.log } :
              \E deleted \in { deleted_event_ids(a.led, evs) } :
              \E order \in Orderings(deleted) :
              \E deleteFail \in Faults({ k \in deleted : Get(a.led, k).google_event_id # NoId },
                                       IF remoteFaults
                                       THEN MaxFaults - Cardinality(findFail) - Cardinality(createFail)
                                       ELSE 0) :
              \E x \in { delete_all(order, 1, [a EXCEPT !.log = log1], deleteFail) } :
              \E save2 \in IF save_after_delete(deleted) THEN saves ELSE {"ok"} :
                  /\ Cardinality(x.rem) <= MaxRemote
                  /\ synced_events' = x.led
                  /\ remote' = x.rem
                  /\ state_file' = IF save_after_delete(deleted)
                                   THEN save_state(file1, x.led, save2)
                                   ELSE file1
                  /\ outlook' = lines
                  /\ events' = evs
                  /\ extracted' = ok
                  /\ calls' = IF save_after_delete(deleted)
                              THEN Append(x.log, SaveCall(save2))
                              ELSE x.log
                  /\ lastOp' = "cycle"
                  /\ UNCHANGED <<now, calvars>>

\* sync_events as one cycle of a behaviour that is explored up to MaxCycles
\* cycles
sync_events(snapshots, extraction, remoteFaults, saves) ==
    /\ cycles < MaxCycles
    /\ cycles' = cycles + 1
    /\ sync_cycle(snapshots, extraction, remoteFaults, saves)

\* sync_events in which a remote call raises an exception that is not an
\* HttpError (no network, timeout, token refresh refused): create_event,
\* check_event_exists and delete_event catch HttpError only, sync_events and
\* the monitor loop catch nothing but KeyboardInterrupt, so the exception ends
\* the cycle at that call and the process with it.  at is the loop in which
\* the call is made and n the position of the call in that loop; the calls
\* before it succeed
sync_events_crash(snapshots) ==
    \E all \in { Listed(remote) } :
    \E lines \in snapshots, at \in {"find", "create", "delete"} :
      /\ cycles < MaxCycles
      /\ cycles' = cycles + 1
      /\ \E evs \in { get_events(lines, TRUE, ClockAt(cycles)) } :
         \E listings \in LookupListings(all, evs, synced_events, {}) :
         \E n \in 1..Max({Len(evs), Len(synced_events)}) :
         \E c \in { classify(IF at = "find" THEN Take(evs, n - 1) ELSE evs, 1,
                        [led |-> synced_events, new_events |-> <<>>, log |-> <<>>, finds |-> {}],
                        remote, {}, listings, now) } :
         \E a \in { create_all(IF at = "create" THEN Take(c.new_events, n - 1) ELSE c.new_events, 1,
                        [led |-> c.led, rem |-> remote, other |-> other_calendar, log |-> c.log],
                        state_file, {}, now) } :
           /\ UnusedAreFirst(all, listings, c.finds)
           /\ outlook' = lines
           /\ events' = evs
           /\ extracted' = TRUE
           /\ lastOp' = "crash"
           /\ UNCHANGED <<now, calvars>>
           /\ CASE at = "find" ->
                    /\ n <= Len(evs)
                    /\ ~is_synced(c.led, evs[n])
                    /\ find_matching_old_event(c.led, evs[n]) = NoKey
                    /\ synced_events' = c.led
                    /\ calls' = Append(c.log, Call("find", unique_id(evs[n]), NoId, FALSE))
                    /\ UNCHANGED <<remote, state_file>>
                [] at = "create" ->
                    /\ n <= Len(c.new_events)
                    /\ synced_events' = a.led
                    /\ remote' = a.rem
                    /\ calls' = Append(a.log, Call("create", unique_id(c.new_events[n]), NoId, FALSE))
                    /\ UNCHANGED state_file
                [] at = "delete" ->
                    \E order \in Orderings(deleted_event_ids(a.led, evs)) :
                    \E x \in { delete_all(Take(order, n - 1), 1,
                                 [a EXCEPT !.log = IF save_after_create(c.new_events)
                                                   THEN Append(a.log, SaveCall("ok"))
                                                   ELSE a.log], {}) } :
                      /\ n <= Len(order)
                      /\ Get(a.led, order[n]).google_event_id # NoId
                      /\ synced_events' = x.led
                      /\ remote' = x.rem
                      /\ calls' = Append(x.log, DeleteCall(order[n],
                                                      Get(a.led, order[n]).google_event_id, "raised"))
                      /\ state_file' = IF save_after_create(c.new_events)
                                       THEN save_state(state_file, a.led, "ok")
                                       ELSE state_file

\* time passes between two operations (time.sleep, or the process not running);
\* a process that an exception has ended stays ended
Tick ==
    /\ now + TickDays * DayHours <= MaxNow * DayHours
    /\ now' = now + TickDays * DayHours
    /\ lastOp' = IF lastOp \in {"crash", "abort"} THEN lastOp ELSE "tick"
    /\ UNCHANGED <<synced_events, state_file, remote, outlook, events, extracted, calls, cycles, calvars>>

\* _set_default_work_calendar: of the two calendars a process can target,
\* 'primary' and the one named '2.업무' ("work"), the latter when the listing
\* of the calendars returns one, and 'primary' when it does not (there is no
\* such calendar, or calendarList().list() raises HttpError and
\* list_calendars returns []).  The process runs without --calendar
set_default_work_calendar(listed) == IF listed THEN "work" ELSE "primary"

\* the process ends and a new one starts: GoogleSync() chooses the target
\* calendar again and SyncMonitor() loads the file.  listings are the answers
\* the listing of the calendars can give at this start.  remote is the
\* content of the target calendar: when the target changes, the events
\* written so far stay in the calendar that was the target, and the process
\* reads and writes the other one
restart(listings) ==
    /\ \E listed \in listings :
       \E c \in { set_default_work_calendar(listed) } :
         /\ calendar_id' = c
         /\ remote' = IF c = calendar_id THEN remote ELSE other_calendar
         /\ other_calendar' = IF c = calendar_id THEN other_calendar ELSE remote
    /\ synced_events' = IF load_raises(state_file) THEN <<>> ELSE load_state(state_file, now)
    /\ lastOp' = IF load_raises(state_file) THEN "abort" ELSE "restart"
    /\ UNCHANGED <<state_file, now, outlook, events, extracted, calls, cycles>>

\* a start at which the listing answers anything: the calendar named '2.업무'
\* may have been added or removed since the last start, or the listing fails
Restart == restart(BOOLEAN)

\* a start at which the listing answers as it did at the last start, so that
\* the target calendar stays the same
Relaunch == restart({ calendar_id = "work" })

-----------------------------------------------------------------------------
(* Initial states: a first run, and a run that finds the ledger file of an *)
(* earlier version, whose keys are 'outlook-' + str(hash(...))             *)

OldKey == <<"outlook-", "-", "7">>
OldKey2 == <<"outlook-", "-", "8">>

\* no file and an empty calendar; the ledger of the earlier version with one
\* mirrored meeting; that ledger with two entries of one title and start
\* (the meeting as two organizers sent it), each with its mirror; and no
\* file over a calendar that holds the mirror of a meeting that began the
\* evening before and ends in the day of the meetings
InitConfigs ==
    { [file |-> MissingFile, remote |-> {}],
      [file |-> File("dict", <<>>,
                     << [key |-> OldKey,
                         info |-> Info(0, isoformat(At(1, 9)), <<"a">>, 1)] >>),
       remote |-> { RemoteEvent(1, PREFIX \o <<"a">>, At(1, 9), At(1, 10)) }],
      [file |-> File("dict", <<>>,
                     << [key |-> OldKey,
                         info |-> Info(0, isoformat(At(1, 9)), <<"a">>, 1)],
                        [key |-> OldKey2,
                         info |-> Info(0, isoformat(At(1, 9)), <<"a">>, 2)] >>),
       remote |-> { RemoteEvent(1, PREFIX \o <<"a">>, At(1, 9), At(1, 10)),
                    RemoteEvent(2, PREFIX \o <<"a">>, At(1, 9), At(1, 10)) }],
      [file |-> MissingFile,
       remote |-> { RemoteEvent(1, PREFIX \o <<"a">>, At(0, 23), At(1, 1)) }] }

\* the state after OutlookReader(), GoogleSync() and SyncMonitor() at the
\* first start, over an account whose listing of the calendars answers one
\* of listings
InitAt(configs, listings) ==
    \E cfg \in configs, listed \in listings :
      /\ state_file = cfg.file
      /\ remote = cfg.remote
      /\ calendar_id = set_default_work_calendar(listed)
      /\ other_calendar = {}
      /\ now = 0
      /\ synced_events = IF load_raises(cfg.file) THEN <<>> ELSE load_state(cfg.file, 0)
      /\ outlook = <<>>
      /\ events = <<>>
      /\ extracted = TRUE
      /\ calls = <<>>
      /\ lastOp = IF load_raises(cfg.file) THEN "abort" ELSE "init"
      /\ cycles = 0

\* the first start over an account without a calendar named '2.업무': the
\* target is 'primary'
InitWith(configs) == InitAt(configs, {FALSE})

Init == InitWith(InitConfigs)

\* the process is running: no exception has ended it, in a cycle ("crash")
\* or at its start ("abort")
Alive == lastOp \notin {"crash", "abort"}

\* a cycle whose extraction works (the calendar may be empty)
SyncCycle == sync_events(Snapshots, {TRUE}, TRUE, {"ok"})

Next == SyncCycle \/ Relaunch

Spec == Init /\ [][Next]_vars

\* the same cycles over an account whose calendar named '2.업무' comes and
\* goes between the starts, so that a start can change the target calendar
InitTargets == InitAt(InitConfigs, BOOLEAN)

NextTargets == SyncCycle \/ Restart

SpecTargets == InitTargets /\ [][NextTargets]_vars

-----------------------------------------------------------------------------
(* Vocabulary of the properties *)

\* the state is the one a sync cycle has just left
AfterCycle == lastOp = "cycle"

\* the step is a sync cycle
CycleStep == cycles' = cycles + 1

CallsOf(log, ops) == { i \in DOMAIN log : log[i].op \in ops }

CallsFor(log, ops, k) == { i \in CallsOf(log, ops) : log[i].key = k }

\* the remote ids the entries of a ledger are bound to
BoundIds(d) == LedgerIds(d) \ {NoId}

-----------------------------------------------------------------------------
(* Properties *)

\* C1: when the extraction fails, the cycle makes no RemoteCalendar.create or
\* RemoteCalendar.delete call and leaves the ledger, in memory and on disk,
\* as it was.
C1_ExtractionFailureSkipsCycle ==
    [][ (CycleStep /\ ~extracted') =>
            /\ CallsOf(calls', {"create", "delete"}) = {}
            /\ synced_events' = synced_events
            /\ state_file' = state_file ]_vars

\* C2: every ledger entry with a remote id refers to an event that exists in
\* the remote calendar (the remote calendar is changed by create_event and
\* delete_event only).
C2_BoundRemoteExists ==
    BoundIds(synced_events) \subseteq RemoteIds(remote)

\* C3: events of one snapshot with the same stableId collapse to one: a cycle
\* makes at most one RemoteCalendar.create call for a stableId, and the ledger
\* entry of that stableId is bound to the one event created.
C3_DuplicatesCollapse ==
    AfterCycle =>
        \A k \in current_event_ids(events) :
            /\ Cardinality(CallsFor(calls, {"create"}, k)) <= 1
            /\ \A i \in CallsFor(calls, {"create"}, k) :
                  calls[i].ok => /\ Has(synced_events, k)
                                 /\ Get(synced_events, k).google_event_id = calls[i].id

\* C4 as stated: a cycle that directly follows a cycle with the identical
\* snapshot makes no RemoteCalendar.create and no RemoteCalendar.delete call.
C4_IdempotentAlways ==
    [][ (AfterCycle /\ CycleStep /\ events' = events) =>
            CallsOf(calls', {"create", "delete"}) = {} ]_vars

\* C4 amended: a cycle that directly follows a cycle with the identical
\* snapshot makes a RemoteCalendar.create call only for an event whose create
\* call failed in the first cycle, and a RemoteCalendar.delete call only for
\* an entry whose delete call failed in the first cycle: it repeats the
\* writes that failed and makes no other.
C4_Idempotent ==
    [][ (AfterCycle /\ CycleStep /\ events' = events) =>
            \A i \in CallsOf(calls', {"create", "delete"}) :
                \E j \in CallsFor(calls, {calls'[i].op}, calls'[i].key) : ~calls[j].ok ]_vars

\* C4 witness: the second of two cycles with the same snapshot of two events
\* has run; each event has its own mirror and the cycle made no remote call.
C4_Witness ==
    /\ AfterCycle
    /\ cycles = 2
    /\ Len(events) = 2
    /\ events[1] # events[2]
    /\ Keys(synced_events) = current_event_ids(events)
    /\ Cardinality(BoundIds(synced_events)) = 2
    /\ BoundIds(synced_events) \subseteq RemoteIds(remote)
    /\ calls = <<>>

\* C5: when RemoteCalendar.create fails for an event, the cycle leaves no
\* ledger entry for it in memory or in the file, and the next cycle whose
\* snapshot has the event calls create for it again.
C5_RetryAfterFailedCreate ==
    [][ CycleStep =>
          /\ \A i \in CallsOf(calls', {"create"}) :
                ~calls'[i].ok =>
                    /\ ~Has(synced_events', calls'[i].key)
                    /\ ~Has(state_file'.dict, calls'[i].key)
          /\ AfterCycle =>
                \A i \in CallsOf(calls, {"create"}) :
                    (~calls[i].ok /\ calls[i].key \in current_event_ids(events')) =>
                        CallsFor(calls', {"create"}, calls[i].key) # {} ]_vars

\* C6: an event mirrored by one cycle and absent from the snapshot of the
\* next causes in that cycle exactly one RemoteCalendar.delete call, for the
\* remote id of its ledger entry, and when the call succeeds the entry is
\* removed.
C6_DeletionSymmetry ==
    [][ (AfterCycle /\ CycleStep) =>
          \A k \in current_event_ids(events) \ current_event_ids(events') :
            (Has(synced_events, k) /\ Get(synced_events, k).google_event_id # NoId) =>
                /\ Cardinality(CallsFor(calls', {"delete"}, k)) = 1
                /\ \A i \in CallsFor(calls', {"delete"}, k) :
                      /\ calls'[i].id = Get(synced_events, k).google_event_id
                      /\ calls'[i].ok =>
                            /\ ~Has(synced_events', k)
                            /\ calls'[i].id \notin RemoteIds(remote') ]_vars

\* C6 witness: the second cycle deleted the remote event of an event that the
\* first cycle had in its snapshot, and removed its ledger entry.
C6_Witness ==
    /\ AfterCycle
    /\ cycles = 2
    /\ \E i \in CallsOf(calls, {"delete"}) :
          /\ calls[i].ok
          /\ calls[i].key \in { unique_id(parse_line(l, ClockAt(cycles))) : l \in EventPool }
          /\ ~Has(synced_events, calls[i].key)
          /\ calls[i].id \notin RemoteIds(remote)

\* C7: after a sync cycle the ledger has no entry whose synced_date is more
\* than the retention window in the past.
C7_PrunedAfterCycle ==
    AfterCycle =>
        \A i \in DOMAIN synced_events :
            ~(synced_events[i].info.synced_date < now - RetentionDays * DayHours)

\* the entry p is kept under an obsolete-scheme key and stores the title and
\* the start time of the event e
IsLegacyMatch(p, e) ==
    /\ is_old_style(p.key)
    /\ p.info.title = e.title
    /\ p.info.event_date = isoformat(e.start)

\* the event at position i of the snapshot evs has been migrated from the
\* entry p of the ledger d: afterwards (ledger d2, call log) it is kept under
\* its stableId with the remote id of p, the key of p is gone and no
\* RemoteCalendar call was made for it
Migrated(d, p, evs, i, d2, log) ==
    LET k == unique_id(evs[i]) IN
    /\ Has(d2, k)
    /\ Get(d2, k).google_event_id = p.info.google_event_id
    /\ ~Has(d2, p.key)
    /\ CallsFor(log, {"find", "create", "delete"}, k) = {}
    /\ CallsFor(log, {"find", "create", "delete"}, p.key) = {}

\* C8: a snapshot event that is not in the ledger under its stableId and
\* whose title and start time are those of an entry under an obsolete-scheme
\* key is migrated from that entry: it is kept under its stableId with the
\* remote id of the entry, the old key is gone and no remote call is made.
C8_LegacyMigratesAlways ==
    [][ CycleStep =>
          \A i \in DOMAIN events' : \A n \in DOMAIN synced_events :
            (/\ ~Has(synced_events, unique_id(events'[i]))
             /\ IsLegacyMatch(synced_events[n], events'[i]))
            => Migrated(synced_events, synced_events[n], events', i, synced_events', calls') ]_vars

\* C9: for a snapshot event that is not in the ledger, has no legacy match
\* and for which check_event_exists returns nothing, the cycle makes exactly
\* one RemoteCalendar.create call, and when the call succeeds the ledger
\* entry of its stableId holds the returned remote id.
C9_OneCreatePerNewEvent ==
    AfterCycle =>
        \A k \in current_event_ids(events) :
            (\E i \in CallsFor(calls, {"find"}, k) : calls[i].id = NoId) =>
                /\ Cardinality(CallsFor(calls, {"create"}, k)) = 1
                /\ \A i \in CallsFor(calls, {"create"}, k) :
                      calls[i].ok => /\ Has(synced_events, k)
                                     /\ Get(synced_events, k).google_event_id = calls[i].id

\* the delete calls of a log that failed: delete_event returned False, or
\* the call raised an exception that delete_event does not catch
FailedDeletes(log) ==
    { i \in CallsOf(log, {"delete"}) : log[i].status \in {"error", "raised"} }

\* the entry a failed delete call of the cycle was made for is in the ledger
\* after the cycle as it was before
KeptOnFailure ==
    \A i \in FailedDeletes(calls') :
        /\ Has(synced_events, calls'[i].key)
        /\ Has(synced_events', calls'[i].key)
        /\ Get(synced_events', calls'[i].key) = Get(synced_events, calls'[i].key)

\* the cycle with call log log moved the entry of key k to the stableId of a
\* snapshot event: update_event_id(k, ...) was called
MigratedAway(log, k) ==
    \E i \in CallsOf(log, {"migrate"}) : log[i].old = k

\* C16: when a delete fails for an entry whose key is absent from the
\* snapshot, the entry is kept unchanged, and every following cycle whose
\* snapshot does not have the key attempts the delete again (an entry that
\* the following cycle moves to the stableId of a snapshot event is not
\* deleted, and is not counted here).
C16_DeleteRetried ==
    [][ CycleStep =>
          /\ KeptOnFailure
          /\ \A i \in FailedDeletes(calls) :
                (/\ calls[i].key \notin current_event_ids(events')
                 /\ ~MigratedAway(calls', calls[i].key)) =>
                    CallsFor(calls', {"delete"}, calls[i].key) # {} ]_vars

\* C17: a delete call that the remote answers with 'not found' counts as
\* a success, and the ledger entry is removed in that cycle.
C17_NotFoundIsSuccess ==
    AfterCycle =>
        \A i \in CallsOf(calls, {"delete"}) :
            calls[i].status = "404" =>
                (calls[i].ok /\ ~Has(synced_events, calls[i].key))

\* C17 witness: a cycle has called delete for a remote event that was not
\* there any more, and the entry is gone.
C17_Witness ==
    /\ AfterCycle
    /\ \E i \in CallsOf(calls, {"delete"}) :
          /\ calls[i].status = "404"
          /\ calls[i].id \notin RemoteIds(remote)
          /\ ~Has(synced_events, calls[i].key)

\* C18: no two ledger entries hold the same non-null remote id.
C18_RemoteIdBoundOnce ==
    \A i, j \in DOMAIN synced_events :
        (i # j /\ synced_events[i].info.google_event_id # NoId) =>
            synced_events[i].info.google_event_id # synced_events[j].info.google_event_id

\* C19: an event for which check_event_exists was called (it is not in the
\* ledger and has no legacy match) and returned a remote id has, after the
\* cycle, a ledger entry under its stableId holding that id, and the cycle
\* made no RemoteCalendar.create call for it.
C19_ReconcileExisting ==
    AfterCycle =>
        \A i \in CallsOf(calls, {"find"}) :
            calls[i].id # NoId =>
                /\ Has(synced_events, calls[i].key)
                /\ Get(synced_events, calls[i].key).google_event_id = calls[i].id
                /\ CallsFor(calls, {"create"}, calls[i].key) = {}

\* a sync cycle has just ended, at its last statement or at an exception
CycleEnded == lastOp \in {"cycle", "crash"}

\* C20: a failed create does not end the cycle: a create call is made for
\* every event classified as new (check_event_exists returned nothing), and
\* the deletion step runs afterwards, so that an entry whose key is not in
\* the snapshot is only still there when its delete call failed.
C20_CreateFailureDoesNotAbort ==
    CycleEnded =>
        ((\E i \in CallsOf(calls, {"create"}) : ~calls[i].ok) =>
            /\ Cardinality(CallsOf(calls, {"create"}))
                 = Cardinality({ i \in CallsOf(calls, {"find"}) : calls[i].id = NoId })
            /\ \A k \in Keys(synced_events) \ current_event_ids(events) :
                  \E i \in FailedDeletes(calls) : calls[i].key = k)

\* the keys that the deletion step of a cycle removed: they were in the
\* ledger d before the cycle, are not in the ledger d2 after it, are not in
\* the snapshot evs and, by the call log, were not moved to a stableId
RemovedByDeletion(d, d2, evs, log) ==
    { k \in Keys(d) \ Keys(d2) :
        k \notin current_event_ids(evs) /\ ~MigratedAway(log, k) }

\* C21: when the creation step of a cycle changes the ledger (a create call
\* succeeded), save_state is called after the creation step and before the
\* deletion step; when the deletion step changes the ledger (it removed an
\* entry), save_state is called after it, as the last call of the cycle.
C21_SavedAfterChange ==
    [][ CycleStep =>
          /\ (\E i \in CallsOf(calls', {"create"}) : calls'[i].ok) =>
                \E n \in CallsOf(calls', {"save"}) :
                    /\ \A i \in CallsOf(calls', {"find", "create"}) : i < n
                    /\ \A j \in CallsOf(calls', {"delete"}) : n < j
          /\ RemovedByDeletion(synced_events, synced_events', events', calls') # {} =>
                /\ calls' # <<>>
                /\ calls'[Len(calls')].op = "save" ]_vars

\* the ledger that a file holds
FileLedger(file) == IF file.kind = "dict" THEN file.dict ELSE <<>>

\* C22: at the end of a cycle in which no save fails, the ledger file holds
\* the ledger that is in memory.
C22_FileEqualsMemory ==
    AfterCycle => FileLedger(state_file) = synced_events

\* C23: in the calls of a cycle every find call comes before every create
\* call, and every create call before every delete call.
C23_StepOrder ==
    AfterCycle =>
        /\ \A i \in CallsOf(calls, {"find"}), j \in CallsOf(calls, {"create", "delete"}) : i < j
        /\ \A i \in CallsOf(calls, {"create"}), j \in CallsOf(calls, {"delete"}) : i < j

\* C23 witness: a cycle has looked up two events, called create for one of
\* them and then delete for a stale entry.
C23_Witness ==
    /\ AfterCycle
    /\ Cardinality(CallsOf(calls, {"find"})) = 2
    /\ CallsOf(calls, {"create"}) # {}
    /\ CallsOf(calls, {"delete"}) # {}

\* C24: for a snapshot event whose stableId is a ledger key when the cycle
\* starts, the cycle makes no find, create or delete call and leaves the
\* entry as it is.
C24_AlreadySyncedFrame ==
    [][ CycleStep =>
          \A k \in current_event_ids(events') \cap Keys(synced_events) :
            /\ CallsFor(calls', {"find", "create", "delete"}, k) = {}
            /\ Has(synced_events', k)
            /\ Get(synced_events', k) = Get(synced_events, k) ]_vars

\* C24 witness: the second cycle found its one event in the ledger, saved
\* and mirrored earlier, and made no call.
C24_Witness ==
    /\ AfterCycle
    /\ cycles = 2
    /\ Len(events) = 1
    /\ calls = <<>>
    /\ Has(FileLedger(state_file), unique_id(events[1]))
    /\ Has(synced_events, unique_id(events[1]))
    /\ Get(synced_events, unique_id(events[1])).google_event_id \in RemoteIds(remote)

\* C26: when check_event_exists fails with an HttpError for an event, the
\* cycle calls RemoteCalendar.create for that event afterwards.
C26_FindFailureMeansCreate ==
    AfterCycle =>
        \A i \in CallsOf(calls, {"find"}) :
            ~calls[i].ok =>
                \E j \in CallsFor(calls, {"create"}, calls[i].key) : i < j

\* C26 witness: a lookup failed although the calendar holds an event with
\* the title, and the cycle created a second one.
C26_Witness ==
    /\ AfterCycle
    /\ Len(events) = 1
    /\ Cardinality(RemoteIds(remote)) = 2
    /\ \E i \in CallsOf(calls, {"find"}), j \in CallsOf(calls, {"create"}) :
          /\ ~calls[i].ok
          /\ calls[j].ok
          /\ calls[j].key = calls[i].key
          /\ i < j

\* C27: after a cycle every stableId of the snapshot is a ledger key, unless
\* a create call for it failed in the cycle.
C27_SnapshotIdsInLedger ==
    AfterCycle =>
        \A k \in current_event_ids(events) :
            \/ Has(synced_events, k)
            \/ \E i \in CallsFor(calls, {"create"}, k) : ~calls[i].ok

\* C27 witness: of two events of a snapshot one was created and is in the
\* ledger, the create call of the other failed and it is not.
C27_Witness ==
    /\ AfterCycle
    /\ Len(events) = 2
    /\ ~Has(synced_events, unique_id(events[1]))
    /\ Has(synced_events, unique_id(events[2]))
    /\ \E i \in CallsFor(calls, {"create"}, unique_id(events[1])) : ~calls[i].ok
    /\ \E i \in CallsFor(calls, {"create"}, unique_id(events[2])) : calls[i].ok

\* C28: after a cycle every ledger key that is not the stableId of a snapshot
\* event belongs to an entry whose delete call failed in the cycle.
C28_StaleKeysRemoved ==
    AfterCycle =>
        \A k \in Keys(synced_events) \ current_event_ids(events) :
            \E i \in FailedDeletes(calls) : calls[i].key = k

\* C28 witness: the first cycle, with an empty snapshot, deleted the remote
\* event of the obsolete key and removed the entry.
C28_Witness ==
    /\ AfterCycle
    /\ cycles = 1
    /\ events = <<>>
    /\ synced_events = <<>>
    /\ \E i \in CallsFor(calls, {"delete"}, OldKey) : calls[i].status = "deleted"

-----------------------------------------------------------------------------
(* Cycles whose extraction may fail: Outlook not running, osascript error *)

SyncCycleExtract == sync_events(Snapshots, BOOLEAN, TRUE, {"ok"})

NextExtract == SyncCycleExtract \/ Relaunch

SpecExtract == Init /\ [][NextExtract]_vars

-----------------------------------------------------------------------------
(* The clock: sync cycles of a process that runs for months *)

NextClock == SyncCycle \/ Tick \/ Relaunch

SpecClock == Init /\ [][NextClock]_vars

-----------------------------------------------------------------------------
(* Remote calls that fail with an exception other than HttpError *)

SyncCycleAlive == Alive /\ sync_events(Snapshots, {TRUE}, TRUE, {"ok"})

SyncCrash == Alive /\ sync_events_crash(Snapshots)

\* a process that an exception ended stays ended; a new one can be started
NextCrash == SyncCycleAlive \/ SyncCrash \/ Relaunch

SpecCrash == Init /\ [][NextCrash]_vars

\* C12: no failure of a remote call escapes the sync cycle or ends the
\* monitor loop: every cycle that starts runs to its end and the process is
\* still running afterwards.
C12_NoFailureEscapes ==
    [][ CycleStep => (lastOp' = "cycle" /\ Alive') ]_vars

-----------------------------------------------------------------------------
(* The ledger file: every kind of contents the process can find at start,  *)
(* and save_state calls that fail or stop part way                         *)

\* the file of the first version: a list of ids (the old format)
ListConfigs ==
    { [file |-> File("list", << OldKey, unique_id(Ev(<<"a">>, 1, 9, <<"alice">>)), OldKey >>, <<>>),
       remote |-> { RemoteEvent(1, PREFIX \o <<"a">>, At(1, 9), At(1, 10)) }] }

\* the files of earlier versions: the list of ids, and a dict whose entry
\* has no google_event_id
UpgradeConfigs ==
    ListConfigs \cup
    { [file |-> File("dict", <<>>,
                     << [key |-> OldKey,
                         info |-> Info(0, isoformat(At(1, 9)), <<"a">>, NoId)] >>),
       remote |-> {}] }

FileConfigs ==
    InitConfigs \cup
    { [file |-> CorruptFile,
       remote |-> { RemoteEvent(1, PREFIX \o <<"a">>, At(1, 9), At(1, 10)) }],
      [file |-> File("shape", <<>>,
                     << [key |-> unique_id(Ev(<<"a">>, 1, 9, <<"alice">>)),
                         info |-> Info(0, isoformat(At(1, 9)), <<"a">>, 1)] >>),
       remote |-> { RemoteEvent(1, PREFIX \o <<"a">>, At(1, 9), At(1, 10)) }],
      [file |-> DeniedFile,
       remote |-> { RemoteEvent(1, PREFIX \o <<"a">>, At(1, 9), At(1, 10)) }] }
    \cup UpgradeConfigs

InitFiles == InitWith(FileConfigs)

SyncCycleSave == Alive /\ sync_events(Snapshots, {TRUE}, TRUE, SaveOutcomes)

NextFiles == SyncCycleSave \/ Tick \/ Relaunch

SpecFiles == InitFiles /\ [][NextFiles]_vars

\* the files of earlier versions under a process whose saves succeed
InitUpgrade == InitWith(UpgradeConfigs)

SpecUpgrade == InitUpgrade /\ [][Next]_vars

\* the list file under a process that runs for months and whose saves
\* succeed
InitListFile == InitWith(ListConfigs)

SpecListFile == InitListFile /\ [][NextClock]_vars

\* C11: whatever happens inside save_state, the ledger file holds the
\* complete prior contents or the complete new contents: a step that changes
\* the file leaves a complete ledger in it.
C11_SaveAtomic ==
    [][ state_file' # state_file => state_file'.kind = "dict" ]_vars

\* C13: after load_state has run on a missing file or on a file that is
\* unreadable or malformed, the ledger in memory is empty and the process
\* goes on.
C13_LoadFailsSoft ==
    (lastOp \in {"init", "restart", "abort"}
       /\ state_file.kind \in {"missing", "corrupt", "shape", "denied"}) =>
        (synced_events = <<>> /\ Alive)

\* the identifiers of an old-format list
ListedIds(file) == { file.list[i] : i \in DOMAIN file.list }

\* C14: loading a file in the old list format gives a ledger with one entry
\* per listed identifier, dated with the time of the load, and leaves the
\* file as it is.
C14_ListFormatUpgrade ==
    [][ (lastOp' = "restart" /\ state_file.kind = "list") =>
          /\ Keys(synced_events') = ListedIds(state_file)
          /\ Len(synced_events') = Cardinality(ListedIds(state_file))
          /\ \A i \in DOMAIN synced_events' : synced_events'[i].info.synced_date = now'
          /\ state_file' = state_file ]_vars

\* C14 witness: a process started later than the first has loaded the list
\* file: both listed identifiers are in the ledger, dated with that time.
C14_Witness ==
    /\ lastOp = "restart"
    /\ now > 0
    /\ state_file.kind = "list"
    /\ Keys(synced_events) = { OldKey, unique_id(Ev(<<"a">>, 1, 9, <<"alice">>)) }
    /\ \A i \in DOMAIN synced_events : synced_events[i].info.synced_date = now

\* the entry that the cycle with call log log made of the entry of key k
\* by update_event_id is in the ledger d2, under the stableId it was moved
\* to and without a remote id
KeptUnbound(log, k, d2) ==
    \A i \in CallsOf(log, {"migrate"}) :
        log[i].old = k =>
            /\ Has(d2, log[i].key)
            /\ Get(d2, log[i].key).google_event_id = NoId

\* C25 as stated: a ledger entry whose key is not in the snapshot and that
\* has no remote id is removed from the ledger in that cycle (it is not kept
\* under any key), and the cycle makes no delete call for it.
C25_UnboundStaleRemovedAlways ==
    [][ CycleStep =>
          \A k \in Keys(synced_events) \ current_event_ids(events') :
            Get(synced_events, k).google_event_id = NoId =>
                /\ ~Has(synced_events', k)
                /\ ~MigratedAway(calls', k)
                /\ CallsFor(calls', {"delete"}, k) = {} ]_vars

\* C25 amended: a ledger entry whose key is not in the snapshot and that has
\* no remote id leaves its key in that cycle and the cycle makes no delete
\* call for it: it is removed from the ledger, unless it is the legacy match
\* of a snapshot event, and then it is kept, still without a remote id,
\* under the stableId of that event.
C25_UnboundStaleRemoved ==
    [][ CycleStep =>
          \A k \in Keys(synced_events) \ current_event_ids(events') :
            Get(synced_events, k).google_event_id = NoId =>
                /\ ~Has(synced_events', k)
                /\ KeptUnbound(calls', k, synced_events')
                /\ CallsFor(calls', {"delete"}, k) = {} ]_vars

\* C25 witness: the first cycle after the load of a list file, with an empty
\* snapshot, removed the entries, which have no remote id, made no delete
\* call and saved.
C25_Witness ==
    /\ AfterCycle
    /\ cycles = 1
    /\ events = <<>>
    /\ synced_events = <<>>
    /\ remote # {}
    /\ state_file.kind = "dict"
    /\ state_file.dict = <<>>
    /\ CallsOf(calls, {"delete"}) = {}
    /\ CallsOf(calls, {"save"}) # {}

\* the keys whose entry a cycle wrote: they are new in the ledger d2 or
\* their entry is not the one of the ledger d
Written(d, d2) ==
    { k \in Keys(d2) : ~Has(d, k) \/ Get(d, k) # Get(d2, k) }

\* the entry of key k was written by update_event_id from an entry of the
\* ledger d that had no remote id
FromUnbound(log, k, d) ==
    \E i \in CallsFor(log, {"migrate"}, k) :
        /\ Has(d, log[i].old)
        /\ Get(d, log[i].old).google_event_id = NoId

\* C29: every entry that a cycle writes (by a create, by a reconciliation or
\* by the migration of an entry that had a remote id) has a remote id: an
\* entry written without one is the migration of an entry that had none.
C29_WrittenEntriesBound ==
    [][ CycleStep =>
          \A k \in Written(synced_events, synced_events') :
            \/ Get(synced_events', k).google_event_id # NoId
            \/ FromUnbound(calls', k, synced_events) ]_vars

\* C29 witness: in one cycle a create call failed and left no entry, and
\* another event got an entry bound to the remote id its call returned.
C29_Witness ==
    /\ AfterCycle
    /\ \E i \in CallsOf(calls, {"create"}) :
          /\ ~calls[i].ok
          /\ ~Has(synced_events, calls[i].key)
    /\ \E i \in CallsOf(calls, {"find", "create"}) :
          /\ calls[i].id # NoId
          /\ Has(synced_events, calls[i].key)
          /\ Get(synced_events, calls[i].key).google_event_id = calls[i].id

\* the snapshots that hold the events of evs in another order
Reorderings(evs) ==
    { [i \in DOMAIN evs |-> evs[p[i]]] : p \in Orderings(DOMAIN evs) }

\* the ledgers, calendars and call logs sync_events can leave when no call
\* fails: classification, creation, save, deletion, save, for the listings
\* of the calendar at the lookups and each order in which the set
\* deleted_event_ids can be iterated
cycle_result(evs, led, rem, other, file, listings, t) ==
    LET c == classify(evs, 1,
                 [led |-> led, new_events |-> <<>>, log |-> <<>>, finds |-> {}],
                 rem, {}, listings, t)
        a == create_all(c.new_events, 1, [led |-> c.led, rem |-> rem, other |-> other, log |-> c.log],
                 file, {}, t)
        saved == IF save_after_create(c.new_events)
                 THEN [a EXCEPT !.log = Append(a.log, SaveCall("ok"))]
                 ELSE a
        deleted == deleted_event_ids(a.led, evs)
    IN  { LET x == delete_all(order, 1, saved, {}) IN
          IF save_after_delete(deleted)
          THEN [x EXCEPT !.log = Append(x.log, SaveCall("ok"))]
          ELSE x :
          order \in Orderings(deleted) }

\* what the remote event r holds after a cycle with call log log on the
\* snapshot evs: the body of the create call that made it, or, for an event
\* older than the cycle, what the model keeps of it
Body(r, log, evs) ==
    LET made == { i \in CallsOf(log, {"create"}) : log[i].ok /\ log[i].id = r.id } IN
    IF made = {}
    THEN [id |-> r.id, summary |-> r.summary, start |-> r.start, description |-> NoText]
    ELSE LET e == CHOOSE e \in { evs[n] : n \in DOMAIN evs } :
                      unique_id(e) = log[CHOOSE i \in made : TRUE].key
         IN  [id |-> NoId, summary |-> google_event(e).summary,
              start |-> google_event(e).start, description |-> google_event(e).description]

\* the remote events that remain, by content, each with its number of copies
Remaining(x, evs) ==
    LET bodies == { Body(r, x.log, evs) : r \in x.rem } IN
    { [body |-> b, copies |-> Cardinality({ r \in x.rem : Body(r, x.log, evs) = b })] :
        b \in bodies }

\* two cycles made as many create and delete calls
SameCalls(x, y) ==
    \A op \in {"create", "delete"} :
        Cardinality(CallsOf(x.log, {op})) = Cardinality(CallsOf(y.log, {op}))

\* two cycles left the same ledger keys
SameKeys(x, y) == Keys(x.led) = Keys(y.led)

\* C32: the outcome of a cycle does not depend on the order of the events
\* in the snapshot: the same snapshot in any other order, from the same
\* ledger and calendar, gives as many create and delete calls, the same
\* remote events and the same ledger keys.
C32_OrderIndependent ==
    [][ CycleStep =>
          \A evs \in Reorderings(events') : \E listings \in [DOMAIN evs -> Listings(remote)] :
             \E x \in { [led |-> synced_events', rem |-> remote', log |-> calls'] } :
             \E y \in cycle_result(evs, synced_events, remote, other_calendar, state_file, listings, now) :
                /\ SameCalls(x, y)
                /\ SameKeys(x, y)
                /\ Remaining(x, events') = Remaining(y, evs) ]_vars

-----------------------------------------------------------------------------
(* Monitor mode: the loop 'while True: sync_events(); time.sleep(interval)' *)
(* runs cycle after cycle without end; cycles counts them modulo 2          *)

MonitorCycle ==
    /\ cycles' = (cycles + 1) % 2
    /\ sync_cycle(Snapshots, {TRUE}, TRUE, {"ok"})

NextMonitor == MonitorCycle

SpecMonitor == Init /\ [][NextMonitor]_vars /\ WF_vars(MonitorCycle)

\* the event that is watched: the meeting as bob organizes it
Watched == unique_id(Ev(<<"a">>, 1, 9, <<"bob">>))

\* the last snapshot holds the watched event
InSnapshot == AfterCycle => Watched \in current_event_ids(events)

\* a create call for the watched event failed in the last cycle
CreateFailed == \E i \in CallsFor(calls, {"create"}, Watched) : ~calls[i].ok

\* the ledger binds the watched event to a remote event that exists
Mirrored ==
    /\ Has(synced_events, Watched)
    /\ Get(synced_events, Watched).google_event_id \in RemoteIds(remote)

\* C30: in monitor mode, when from some cycle on the event is in every
\* snapshot and its create call does not fail for ever, then from that time
\* on the ledger eventually holds an entry for it bound to a remote event
\* that exists.
C30_EventuallyMirrored ==
    (<>[]InSnapshot /\ []<>(~CreateFailed)) => []<>Mirrored

\* the monitor loop when the desktop calendar holds one meeting at most:
\* the deletions of a cycle depend on the set of ids of the snapshot only
Agenda == { lines \in Snapshots : Len(lines) <= 1 }

AgendaCycle ==
    /\ cycles' = (cycles + 1) % 2
    /\ sync_cycle(Agenda, {TRUE}, TRUE, {"ok"})

NextAgenda == AgendaCycle

SpecAgenda == Init /\ [][NextAgenda]_vars /\ WF_vars(AgendaCycle)

\* the entry whose deletion is watched: the meeting as alice organizes it
Stale == unique_id(Ev(<<"a">>, 1, 9, <<"alice">>))

\* the last snapshot does not hold the event of the stale entry
Absent == AfterCycle /\ Stale \notin current_event_ids(events)

\* a delete call for the stale entry failed in the last cycle
DeleteFailed == \E i \in FailedDeletes(calls) : calls[i].key = Stale

\* the ledger binds the stale entry to the remote event g, which exists
MirroredAs(g) ==
    /\ Has(synced_events, Stale)
    /\ Get(synced_events, Stale).google_event_id = g
    /\ g \in RemoteIds(remote)

\* the entry is out of the ledger and the remote event g is deleted
Propagated(g) ==
    /\ ~Has(synced_events, Stale)
    /\ g \notin RemoteIds(remote)

\* C31: in monitor mode, when from some cycle on a mirrored event is absent
\* from every snapshot and its delete call does not fail for ever, then its
\* remote event is eventually deleted and its entry removed, and the entry
\* stays out of the ledger.
C31_EventuallyDeleted ==
    (<>[]Absent /\ []<>(~DeleteFailed)) =>
        /\ \A g \in 1..(MaxRemote + 1) : [](MirroredAs(g) => <>Propagated(g))
        /\ <>[](~Has(synced_events, Stale))

\* a cycle whose snapshot lacks the mirrored event has deleted its remote
\* event and removed its entry
C31_Witness ==
    /\ Absent
    /\ \E i \in CallsFor(calls, {"delete"}, Stale) :
          /\ calls[i].status = "deleted"
          /\ Propagated(calls[i].id)

-----------------------------------------------------------------------------
(* get_events called again and again, at different times, on a desktop     *)
(* calendar that holds one event and does not change                       *)

LinePool ==
    { Line(t, DateStr(fmt, d, ampm, h), o) :
        t \in {<<"a">>, <<"b">>}, fmt \in {"ko", "other"}, d \in {1, 2},
        ampm \in {"AM", "PM"}, h \in {9, 12}, o \in {<<"alice">>, <<"bob">>} }

InitIdentity ==
    /\ \E line \in LinePool : outlook = << line >>
    /\ events = <<>>
    /\ synced_events = <<>>
    /\ state_file = MissingFile
    /\ remote = {}
    /\ calendar_id = "primary"
    /\ other_calendar = {}
    /\ now = 0
    /\ extracted = TRUE
    /\ calls = <<>>
    /\ lastOp = "init"
    /\ cycles = 0

\* events = outlook.get_events(...)
Extract ==
    /\ cycles < MaxCycles
    /\ cycles' = cycles + 1
    /\ events' = get_events(outlook, TRUE, ClockAt(cycles))
    /\ lastOp' = "extract"
    /\ UNCHANGED <<synced_events, state_file, remote, now, outlook, extracted, calls, calvars>>

NextIdentity == Extract \/ Tick

SpecIdentity == InitIdentity /\ [][NextIdentity]_vars

\* C15: two extractions of an event whose title, start time and organizer
\* have not changed in the desktop calendar give it the same id, whenever
\* they run.
C15_StableIdentity ==
    [][ (events # <<>> /\ events' # <<>> /\ outlook' = outlook) =>
            unique_id(events'[1]) = unique_id(events[1]) ]_vars

-----------------------------------------------------------------------------
(* create_event followed by check_event_exists, for one event in an empty  *)
(* calendar: the lookup a new process with an empty ledger makes.  The     *)
(* event is the first of its extraction: its title starts with no blank    *)

MaxTitle == 3       \* longest title, in tokens

Titles == UNION { [1..n -> {"MAILICON", " ", "a"}] : n \in 1..MaxTitle }

InitOwnWrites ==
    /\ \E t \in { x \in Titles : lstrip(x) = x }, d \in {1, 2}, h \in {9, 14} :
         events = << Ev(t, d, h, <<"alice">>) >>
    /\ outlook = <<>>
    /\ synced_events = <<>>
    /\ state_file = MissingFile
    /\ remote = {}
    /\ calendar_id = "primary"
    /\ other_calendar = {}
    /\ now = 0
    /\ extracted = TRUE
    /\ calls = <<>>
    /\ lastOp = "init"
    /\ cycles = 0

\* google.create_event(event)
OwnCreate ==
    /\ lastOp = "init"
    /\ LET id == NewRemoteId(remote \cup other_calendar, synced_events, state_file) IN
       /\ remote' = create_event(remote, events[1], id)
       /\ calls' = Append(calls, Call("create", unique_id(events[1]), id, TRUE))
    /\ lastOp' = "create"
    /\ UNCHANGED <<synced_events, state_file, now, outlook, events, extracted, cycles, calvars>>

\* google.check_event_exists(event)
OwnCheck ==
    /\ lastOp = "create"
    /\ \E listing \in Listings(remote) :
         calls' = Append(calls, Call("find", unique_id(events[1]),
                                     check_event_exists(remote, events[1], listing), TRUE))
    /\ lastOp' = "find"
    /\ UNCHANGED <<synced_events, state_file, remote, now, outlook, events, extracted, cycles, calvars>>

NextOwnWrites == OwnCreate \/ OwnCheck

SpecOwnWrites == InitOwnWrites /\ [][NextOwnWrites]_vars

\* C10: once create_event has created the mirror of an event, whatever its
\* title, check_event_exists for that event returns the id of the mirror.
C10_RecognizesOwnWrites ==
    lastOp = "find" => calls[2].id = calls[1].id

-----------------------------------------------------------------------------
(* The id of get_events for two events of one extraction: titles and       *)
(* organizers are any texts, with dashes and timestamps in them            *)

MaxText == 3        \* longest title or organizer, in tokens

\* the texts of up to MaxText tokens: a word, a dash, a start time as
\* isoformat prints it
Texts == UNION { [1..n -> {"a", "-"} \cup { isoformat(At(1, 9))[1] }] :
                   n \in 0..MaxText }

\* the events a calendar can hold (the organizer may be empty: parts[5] is
\* optional)
Triples == { Ev(t, d, 9, o) : t \in Texts \ {<<>>}, d \in {1, 2}, o \in Texts }

InitTriples ==
    /\ \E e1 \in { e \in Triples : e.start.day = 1 }, e2 \in Triples : events = << e1, e2 >>
    /\ outlook = <<>>
    /\ synced_events = <<>>
    /\ state_file = MissingFile
    /\ remote = {}
    /\ calendar_id = "primary"
    /\ other_calendar = {}
    /\ now = 0
    /\ extracted = TRUE
    /\ calls = <<>>
    /\ lastOp = "init"
    /\ cycles = 0

\* unique_id = f"outlook-{md5(hash_input)...}" for each event of the list
Identify ==
    /\ lastOp = "init"
    /\ calls' = [i \in DOMAIN events |-> Call("id", unique_id(events[i]), NoId, TRUE)]
    /\ lastOp' = "id"
    /\ UNCHANGED <<synced_events, state_file, remote, now, outlook, events, extracted, cycles, calvars>>

NextTriples == Identify

SpecTriples == InitTriples /\ [][NextTriples]_vars

\* C33: two events that differ in title, start time or organizer get
\* different ids: the strings that are hashed differ.
C33_DistinctIds ==
    (lastOp = "id" /\ events[1] # events[2]) => calls[1].key # calls[2].key

-----------------------------------------------------------------------------
(* load_state on ledger files whose entries carry any synced_date: one    *)
(* that is missing or unparseable, a plain timestamp, one with a UTC offset *)

MaxEntries == 2     \* most entries of a ledger file

LoadKeys ==
    { OldKey, unique_id(Ev(<<"a">>, 1, 9, <<"alice">>)), unique_id(Ev(<<"a">>, 1, 9, <<"bob">>)) }

LoadDates == { NoDate, 0, TickDays * DayHours, Aware(0) }

LoadLedgers ==
    { d \in UNION { [1..n -> [key : LoadKeys,
                              info : { Info(sd, isoformat(At(1, 9)), <<"a">>, NoId) :
                                         sd \in LoadDates }]] : n \in 0..MaxEntries } :
        \A i, j \in DOMAIN d : d[i].key = d[j].key => i = j }

LoadConfigs == { [file |-> File("dict", <<>>, d), remote |-> {}] : d \in LoadLedgers }

InitLoad == InitWith(LoadConfigs)

NextLoad == Tick \/ Relaunch

SpecLoad == InitLoad /\ [][NextLoad]_vars

\* the hour of a synced_date that is a timestamp
TimeOf(sd) == IF IsAware(sd) THEN sd - AwareBase ELSE sd

\* the state is the one load_state has just left
AfterLoad == lastOp \in {"init", "restart"}

\* C34: after a load, an entry of the file whose synced_date is missing or
\* not a parseable timestamp is not in the ledger, and every other entry of
\* the file whose timestamp is within the retention window is, as the file
\* has it.
C34_InvalidEntriesDropped ==
    (AfterLoad /\ state_file.kind = "dict") =>
        \A i \in DOMAIN state_file.dict :
            \E p \in { state_file.dict[i] } :
               /\ p.info.synced_date = NoDate => ~Has(synced_events, p.key)
               /\ (p.info.synced_date # NoDate
                      /\ ~(TimeOf(p.info.synced_date) < now - RetentionDays * DayHours)) =>
                     (Has(synced_events, p.key) /\ Get(synced_events, p.key) = p.info)

====
